---- MODULE Spec2Model ----
(***************************************************************************)
(* SMTPvrfy: smtp_vrfy.py.  A model of verify_smtp (lines 50-111): the     *)
(* port resolution, the announcement, and the per-candidate loop           *)
(* socket -> connect -> banner -> send -> reply -> classify, with the      *)
(* except IOError clause and the finally clause, under the semantics of    *)
(* the Python 3 runtime the file needs (f-strings, urllib.parse).          *)
(* get_usernames (lines 16-48) and the calls of __main__ (lines 124-125)   *)
(* are modelled behind it, with their own initial state.                   *)
(*                                                                         *)
(* Texts are sequences: a server reply is a sequence of one-character      *)
(* strings, an error text a sequence of words; `x in y` of the source is   *)
(* Contains, a search for a contiguous run.                                *)
(***************************************************************************)
EXTENDS Integers, Sequences, FiniteSets, TLC

VARIABLES
    verbose,      \* argument verbose: NoneVerbose (argparse count, no -v) or a count
    usernames,    \* argument usernames: the candidate sequence
    sleep_value,  \* argument sleep_value, seconds
    port,         \* argument port, then the resolved port (lines 54-57)
    transport,    \* the socket object: "bytes" is socket.socket of Python 3 (send takes
                  \* bytes, recv gives bytes); "str" is a socket object whose send takes
                  \* and whose recv gives str, which lines 76-84 are written for
    pc,           \* position in verify_smtp
    i,            \* 1-based index of `user` in usernames (0 before the loop)
    s,            \* local s: 0 = unbound, j = the socket created in iteration j
    open,         \* iterations whose socket is connected and not closed
    valid_users,  \* local valid_users
    banner,       \* local banner
    result,       \* local result
    err,          \* text of the IOError being handled (<<>> when none)
    abort,        \* which break was taken: "none" or the reason
    exc,          \* exception in flight or propagated to the caller, "none" if none
    log,          \* history of socket calls and sleeps
    out,          \* lines written to standard output
    ret,          \* value returned at line 111
    prev,         \* what an earlier call of verify_smtp gave its caller
    unread,       \* bytes of the banner that the recv of line 72 left in the socket
    first,        \* an earlier call of verify_smtp, as its server and its caller saw it
    usernames_arg, \* argument of get_usernames: the text given on the command line
    source        \* what the file system holds under the name usernames_arg

vars == <<verbose, usernames, sleep_value, port, transport, pc, i, s, open,
          valid_users, banner, result, err, abort, exc, log, out, ret, prev,
          unread, first, usernames_arg, source>>

-----------------------------------------------------------------------------
(* Bounds and input samples *)

MaxLen == 2         \* longest candidate sequence
MaxLenAgain == 1    \* longest candidate sequence of a second call
MaxLenRepeat == 1   \* longest candidate sequence of a call that is repeated
DelaySecs == 2      \* the non-zero delay tried

Candidates == {"alice", "bob"}

NoneVerbose == -1   \* stands for Python's None (args.verbose when -v is absent)
MaxVerbose == 2
DefaultPort == 25
AltPort == 587

RECURSIVE SeqsUpTo(_, _)
SeqsUpTo(S, n) ==
    IF n = 0 THEN {<<>>}
    ELSE LET shorter == SeqsUpTo(S, n - 1)
         IN  shorter \cup {Append(q, x) : q \in {t \in shorter : Len(t) = n - 1}, x \in S}

(* port values: None, an int, or a string *)
PortNone == [kind |-> "none", text |-> <<>>, num |-> 0]
PortInt(n) == [kind |-> "int", text |-> <<>>, num |-> n]
PortStr(t) == [kind |-> "str", text |-> t, num |-> 0]

PortInputs ==
    { PortNone, PortInt(AltPort),
      PortStr(<<" ">>), PortStr(<<>>), PortStr(<<" ", " ">>),
      PortStr(<<"5", "8", "7">>), PortStr(<<" ", "2", "5">>), PortStr(<<"s", "m", "t", "p">>) }

(* server replies to VRFY, as sequences of characters *)
Replies ==
    { <<"2", "5", "2">>,
      <<"5", "5", "0">>,
      <<"5", "0", "3">>,
      <<"5", "0", "0">>,
      <<"2", "5", "0">>,
      <<"2", "5", "2", "5", "0", "3", "5", "0", "0">>,
      <<"5", "5", "0", "3", "5", "0", "0">>,
      <<"5", "0", "3", "5", "0", "0">>,
      <<"2", "5", "0", "0">> }

Banners == { <<"2", "2", "0">>, <<"2", "5", "2">> }

(* how a banner arrives: `read` is what the recv of line 72 returns, `left`
   what the server sent of the banner beyond it, past the 1024 bytes of the
   read or in a later segment *)
BannerDeliveries ==
    {[read |-> b, left |-> <<>>] : b \in Banners}
        \cup {[read |-> <<"2", "2", "0">>, left |-> <<"5", "0", "3">>]}

(* replies that may have arrived behind unread banner bytes by line 81 *)
RepliesBehind == { <<"2", "5", "0">> }

(* error texts str(e), as sequences of words *)
EINPROGRESS == <<"[Errno 115]", "Operation", "now", "in", "progress">>
TIMEDOUT == <<"timed", "out">>
ECONNREFUSED == <<"[Errno 111]", "Connection", "refused">>
ECONNRESET == <<"[Errno 104]", "Connection", "reset", "by", "peer">>
EMFILE == <<"[Errno 24]", "Too", "many", "open", "files">>

\* what s.connect, s.recv and s.send may raise
ConnectErrors == {EINPROGRESS, TIMEDOUT, ECONNREFUSED}
RecvErrors == {EINPROGRESS, TIMEDOUT}
SendErrors == {EINPROGRESS, ECONNRESET}

-----------------------------------------------------------------------------
(* Pure helpers *)

\* Python's `pat in text` on sequences: pat occurs as a contiguous run
Contains(text, pat) ==
    \E k \in 0..(Len(text) - Len(pat)) :
        \A j \in 1..Len(pat) : text[k + j] = pat[j]

Code252 == <<"2", "5", "2">>
Code550 == <<"5", "5", "0">>
Code503 == <<"5", "0", "3">>
Code500 == <<"5", "0", "0">>

\* mutant of Classify: "503" and "500" tested before "252" and "550"
Classify_AbortCodesFirst(reply) ==
    IF Contains(reply, Code503) THEN "AuthRequired"
    ELSE IF Contains(reply, Code500) THEN "Unsupported"
    ELSE IF Contains(reply, Code252) THEN "Confirmed"
    ELSE IF Contains(reply, Code550) THEN "Rejected"
    ELSE "OtherError"

\* lines 84-96: the if/elif chain over the reply
Classify(reply) ==
    IF Contains(reply, Code252) THEN "Confirmed"
    ELSE IF Contains(reply, Code550) THEN "Rejected"
    ELSE IF Contains(reply, Code503) THEN "AuthRequired"
    ELSE IF Contains(reply, Code500) THEN "Unsupported"
    ELSE "OtherError"

Marker == <<"Operation", "now", "in", "progress">>

\* mutant of HasMarker: the text of a socket timeout is the marker
HasMarker_TimedOut(text) == Contains(text, <<"timed", "out">>)

\* mutant of HasMarker: every IOError is fatal
HasMarker_AnyError(text) == text # <<>>

\* mutant of HasMarker: no IOError is fatal
HasMarker_Never(text) == FALSE

\* line 101: 'Operation now in progress' in str(e)
HasMarker(text) == Contains(text, Marker)

\* int(port) on a string: surrounding whitespace is dropped, digits are read
IsSpace(c) == c \in {" ", "\t", "\n"}
Digits == <<"0", "1", "2", "3", "4", "5", "6", "7", "8", "9">>
IsDigit(c) == \E d \in 1..Len(Digits) : Digits[d] = c
DigitVal(c) == (CHOOSE d \in 1..Len(Digits) : Digits[d] = c) - 1

RECURSIVE StripLeft(_)
StripLeft(t) == IF t # <<>> /\ IsSpace(Head(t)) THEN StripLeft(Tail(t)) ELSE t

RECURSIVE StripRight(_)
StripRight(t) ==
    IF t # <<>> /\ IsSpace(t[Len(t)]) THEN StripRight(SubSeq(t, 1, Len(t) - 1)) ELSE t

Strip(t) == StripRight(StripLeft(t))

IsNumeric(t) == Strip(t) # <<>> /\ \A k \in 1..Len(Strip(t)) : IsDigit(Strip(t)[k])

RECURSIVE DecimalValue(_)
DecimalValue(t) ==
    IF t = <<>> THEN 0
    ELSE 10 * DecimalValue(SubSeq(t, 1, Len(t) - 1)) + DigitVal(t[Len(t)])

ParseInt(t) == DecimalValue(Strip(t))

\* one socket call or sleep: err is str(e) of the IOError it raised (<<>> if none),
\* num the port of a connect, the seconds of a sleep, and for a reply read the
\* number of leading bytes of data that are unread bytes of the banner
Event(op, idx, data, e, num) == [op |-> op, idx |-> idx, data |-> data, err |-> e, num |-> num]

\* line 76: 'VRFY ' + user + '\n'
Command(u) == <<"VRFY ", u, "\n">>

\* mutant of Confirm: a candidate already in the list is not appended again
Confirm_NoDuplicates(list, u, outcome) ==
    IF outcome = "Confirmed" /\ ~(\E k \in 1..Len(list) : list[k] = u)
    THEN Append(list, u)
    ELSE list

\* lines 84-85: the candidate is appended on "252"
Confirm(list, u, outcome) == IF outcome = "Confirmed" THEN Append(list, u) ELSE list

\* mutant of Breaks: the break after "500" is missing
Breaks_Only503(outcome) == outcome = "AuthRequired"

\* lines 91-96: the two replies that break out of the loop
Breaks(outcome) == outcome \in {"AuthRequired", "Unsupported"}

\* mutant of Closed: s.close() is missing
Closed_Leaked(conns, sock) == conns

\* line 106: s.close()
Closed(conns, sock) == conns \ {sock}

\* mutant of Teardown: the sleep comes before the close
Teardown_SleepFirst(sock, idx, delay) ==
    (IF delay # 0 THEN <<[op |-> "sleep", idx |-> idx, data |-> <<>>, err |-> <<>>, num |-> delay]>>
     ELSE <<>>)
    \o <<[op |-> "close", idx |-> sock, data |-> <<>>, err |-> <<>>, num |-> 0]>>

\* lines 106-108: what finally does, in order: the close, then the sleep
Teardown(sock, idx, delay) ==
    <<Event("close", sock, <<>>, <<>>, 0)>>
    \o (IF delay # 0 THEN <<Event("sleep", idx, <<>>, <<>>, delay)>> ELSE <<>>)

\* mutant of LoopHasNext: off by one
LoopHasNext_OffByOne(idx, list) == idx <= Len(list)

\* mutant of NextIndex: the candidate at hand is taken again (a retry)
NextIndex_Again(idx) == IF idx = 0 THEN 1 ELSE idx

\* line 65: the iterator moves to the element after the one at hand
NextIndex(idx) == idx + 1

\* line 65: the iterator over usernames has a further element
LoopHasNext(idx, list) == idx < Len(list)

\* mutant of ReturnValue: the way the loop ended is returned with the list
ReturnValue_WithStatus(list, a) == Append(list, a)

\* line 111: the value of `return valid_users`
ReturnValue(list, a) == list

\* where control goes when the finally clause is done: an exception in flight
\* propagates, a pending break (lines 93, 96, 103) leaves the loop, else line 65
AfterFinally(e, a) ==
    IF e # "none" THEN "raised"
    ELSE IF a # "none" THEN "return"
    ELSE "for"

MsgConnecting == "[*] Connecting to %s on port %s to execute the test"
MsgBanner == "[*] The system banner is: '%s'"
MsgExecuting == "[*] Executing: %s"
MsgValid == "[+] Username %s is valid"
MsgRejected == "[-] 550 Username doesn't exist"
MsgAuth == "[!] The server requires authentication"
MsgUnsupported == "[!] The VRFY command is not supported"
MsgError == "[!] The following error occurred: '%s'"
MsgConnFailed == "[!] The connection to SMTP failed"

NoCall == [called |-> FALSE, ret |-> <<>>, abort |-> "none"]

NoRun ==
    [called |-> FALSE, verbose |-> 0, pc |-> "port", exc |-> "none",
     log |-> <<>>, out |-> <<>>, ret |-> <<>>]

\* mutant of InitialList: the list is one object kept from call to call, as a
\* module-level list or a mutable default argument would be
InitialList_Kept(f) == f.ret

\* line 63: valid_users = [], a new list in every call
InitialList(f) == <<>>

\* verify_smtp called on its own: no command line and no file are involved
NoSource == [isfile |-> FALSE, named |-> FALSE, error |-> "none", content |-> <<>>]

\* line 81: what recv returns: the reply, or first the bytes of the banner still
\* unread, with or without a reply behind them
Received(left) ==
    IF left = <<>> THEN Replies
    ELSE {left} \cup {left \o r : r \in RepliesBehind}

-----------------------------------------------------------------------------
(* The state when verify_smtp is entered, before line 54 runs *)

Init ==
    /\ verbose \in {NoneVerbose} \cup (0..MaxVerbose)
    /\ usernames \in SeqsUpTo(Candidates, MaxLen)
    /\ sleep_value \in {0, DelaySecs}
    /\ port \in PortInputs
    /\ transport \in {"bytes", "str"}
    /\ pc = "port"
    /\ i = 0
    /\ s = 0
    /\ open = {}
    /\ valid_users = <<>>
    /\ banner = <<>>
    /\ result = <<>>
    /\ err = <<>>
    /\ abort = "none"
    /\ exc = "none"
    /\ log = <<>>
    /\ out = <<>>
    /\ ret = <<>>
    /\ prev = NoCall
    /\ unread = <<>>
    /\ first = NoRun
    /\ usernames_arg = <<>>
    /\ source = NoSource

args == <<verbose, usernames, sleep_value, transport, prev, first, usernames_arg, source>>

user == usernames[i]

-----------------------------------------------------------------------------
(* verify_smtp, one action per step *)

\* lines 53-57: the default port, or int(port)
ResolvePort ==
    /\ pc = "port"
    /\ IF port.kind = "none" \/ (port.kind = "str" /\ port.text = <<" ">>)
       THEN /\ port' = PortInt(DefaultPort)
            /\ pc' = "announce"
            /\ exc' = exc
       ELSE IF port.kind = "int"
       THEN /\ port' = port
            /\ pc' = "announce"
            /\ exc' = exc
       ELSE IF IsNumeric(port.text)
       THEN /\ port' = PortInt(ParseInt(port.text))
            /\ pc' = "announce"
            /\ exc' = exc
       ELSE /\ port' = port
            /\ pc' = "raised"
            /\ exc' = "ValueError"
    /\ UNCHANGED <<args, unread, i, s, open, valid_users, banner, result, err, abort, log, out, ret>>

\* lines 59-63: `verbose > 0` (None > 0 is a TypeError), the print whose result
\* is %-formatted (None % tuple is a TypeError, after the text is written),
\* then valid_users = []
Announce ==
    /\ pc = "announce"
    /\ IF verbose = NoneVerbose
       THEN /\ exc' = "TypeError"
            /\ pc' = "raised"
            /\ out' = out
       ELSE IF verbose > 0
       THEN /\ out' = Append(out, MsgConnecting)
            /\ exc' = "TypeError"
            /\ pc' = "raised"
       ELSE /\ out' = out
            /\ exc' = exc
            /\ pc' = "for"
    /\ valid_users' = InitialList(first)
    /\ UNCHANGED <<args, unread, port, i, s, open, banner, result, err, abort, log, ret>>

\* line 65: the next user, or the end of the loop
ForNext ==
    /\ pc = "for"
    /\ IF LoopHasNext(i, usernames)
       THEN i' = NextIndex(i) /\ pc' = "socket"
       ELSE i' = i /\ pc' = "return"
    /\ UNCHANGED <<args, unread, port, s, open, valid_users, banner, result, err, abort, exc, log, out, ret>>

\* lines 67-69: socket.socket(...) and settimeout; creation may fail with an OSError
Socket ==
    /\ pc = "socket"
    /\ \/ /\ s' = i
          /\ err' = err
          /\ log' = Append(log, Event("socket", i, <<>>, <<>>, 0))
          /\ pc' = "connect"
       \/ /\ s' = s
          /\ err' = EMFILE
          /\ log' = Append(log, Event("socket", i, <<>>, EMFILE, 0))
          /\ pc' = "except"
    /\ UNCHANGED <<args, unread, port, i, open, valid_users, banner, result, abort, exc, out, ret>>

\* line 70: s.connect((ip, port))
Connect ==
    /\ pc = "connect"
    /\ \/ /\ open' = open \cup {s}
          /\ err' = err
          /\ log' = Append(log, Event("connect", i, <<>>, <<>>, port.num))
          /\ pc' = "banner"
       \/ \E e \in ConnectErrors :
            /\ open' = open
            /\ err' = e
            /\ log' = Append(log, Event("connect", i, <<>>, e, port.num))
            /\ pc' = "except"
    /\ UNCHANGED <<args, unread, port, i, s, valid_users, banner, result, abort, exc, out, ret>>

\* lines 72-74: banner = s.recv(1024), and the verbose print
Banner ==
    /\ pc = "banner"
    /\ \/ \E d \in BannerDeliveries :
            /\ banner' = d.read
            /\ unread' = d.left
            /\ err' = err
            /\ log' = Append(log, Event("banner", i, <<>>, <<>>, 0))
            /\ IF verbose > 0
               THEN /\ out' = Append(out, MsgBanner)
                    /\ exc' = "TypeError"
                    /\ pc' = "finally"
               ELSE /\ out' = out
                    /\ exc' = exc
                    /\ pc' = "send"
       \/ \E e \in RecvErrors :
            /\ banner' = banner
            /\ unread' = unread
            /\ err' = e
            /\ log' = Append(log, Event("banner", i, <<>>, e, 0))
            /\ out' = out
            /\ exc' = exc
            /\ pc' = "except"
    /\ UNCHANGED <<args, port, i, s, open, valid_users, result, abort, ret>>

\* lines 76-80: the command, the verbose print, s.send(command); a socket that
\* takes bytes raises TypeError for the str command before anything is sent
Send ==
    /\ pc = "send"
    /\ IF verbose > 0
       THEN /\ out' = Append(out, MsgExecuting)
            /\ exc' = "TypeError"
            /\ pc' = "finally"
            /\ UNCHANGED <<log, err>>
       ELSE IF transport = "bytes"
       THEN /\ exc' = "TypeError"
            /\ pc' = "finally"
            /\ UNCHANGED <<log, err, out>>
       ELSE \/ /\ log' = Append(log, Event("send", i, Command(user), <<>>, 0))
               /\ pc' = "recv"
               /\ UNCHANGED <<err, exc, out>>
            \/ \E e \in SendErrors :
                 /\ err' = e
                 /\ log' = Append(log, Event("send", i, Command(user), e, 0))
                 /\ pc' = "except"
                 /\ UNCHANGED <<exc, out>>
    /\ UNCHANGED <<args, unread, port, i, s, open, valid_users, banner, result, abort, ret>>

\* line 81: result = s.recv(1024)
Recv ==
    /\ pc = "recv"
    /\ \/ \E r \in Received(unread) :
            /\ result' = r
            /\ log' = Append(log, Event("reply", i, r, <<>>, Len(unread)))
            /\ unread' = <<>>
            /\ err' = err
            /\ pc' = "classify"
       \/ \E e \in RecvErrors :
            /\ result' = result
            /\ log' = Append(log, Event("reply", i, <<>>, e, 0))
            /\ unread' = unread
            /\ err' = e
            /\ pc' = "except"
    /\ UNCHANGED <<args, port, i, s, open, valid_users, banner, abort, exc, out, ret>>

\* lines 83-96: the if/elif chain; `"252" in result` is a TypeError on bytes
ClassifyReply ==
    /\ pc = "classify"
    /\ pc' = "finally"
    /\ IF transport = "bytes"
       THEN /\ exc' = "TypeError"
            /\ UNCHANGED <<valid_users, abort, out>>
       ELSE LET outcome == Classify(result) IN
            /\ valid_users' = Confirm(valid_users, user, outcome)
            /\ abort' = IF Breaks(outcome) THEN outcome ELSE abort
            /\ out' = CASE outcome = "Confirmed" /\ verbose > 1 -> Append(out, MsgValid)
                        [] outcome = "Rejected" /\ verbose > 1 -> Append(out, MsgRejected)
                        [] outcome = "AuthRequired" -> Append(out, MsgAuth)
                        [] outcome = "Unsupported" -> Append(out, MsgUnsupported)
                        [] OTHER -> out
            /\ exc' = IF outcome = "Confirmed" /\ verbose > 1 THEN "TypeError" ELSE exc
    /\ UNCHANGED <<args, unread, port, i, s, open, banner, result, err, log, ret>>

\* lines 98-103: except IOError as e
Except ==
    /\ pc = "except"
    /\ pc' = "finally"
    /\ err' = <<>>
    /\ IF verbose > 1
       THEN /\ out' = Append(out, MsgError)
            /\ exc' = "TypeError"
            /\ abort' = abort
       ELSE IF HasMarker(err)
       THEN /\ out' = Append(out, MsgConnFailed)
            /\ abort' = "ConnectionError"
            /\ exc' = exc
       ELSE UNCHANGED <<out, abort, exc>>
    /\ UNCHANGED <<args, unread, port, i, s, open, valid_users, banner, result, log, ret>>

\* lines 105-109: finally: s.close(), then the sleep; afterwards the exception
\* in flight propagates, or the break leaves the loop, or the loop goes on.
\* With s unbound (socket creation failed in the first iteration) s.close()
\* raises UnboundLocalError and the sleep is not reached.
Finally ==
    /\ pc = "finally"
    /\ IF s = 0
       THEN /\ exc' = "UnboundLocalError"
            /\ pc' = "raised"
            /\ UNCHANGED <<open, log, unread>>
       ELSE /\ open' = Closed(open, s)
            /\ unread' = <<>>
            /\ log' = log \o Teardown(s, i, sleep_value)
            /\ exc' = exc
            /\ pc' = AfterFinally(exc, abort)
    /\ UNCHANGED <<args, port, i, s, valid_users, banner, result, err, abort, out, ret>>

\* line 111: return valid_users
Return ==
    /\ pc = "return"
    /\ ret' = ReturnValue(valid_users, abort)
    /\ pc' = "returned"
    /\ UNCHANGED <<args, unread, port, i, s, open, valid_users, banner, result, err, abort, exc, log, out>>

Next ==
    \/ ResolvePort
    \/ Announce
    \/ ForNext
    \/ Socket
    \/ Connect
    \/ Banner
    \/ Send
    \/ Recv
    \/ ClassifyReply
    \/ Except
    \/ Finally
    \/ Return

Spec == Init /\ [][Next]_vars

\* line 125, once more: the caller keeps what the first call returned and calls
\* verify_smtp again with another candidate sequence, the other arguments as
\* they are (the port being the int it resolved to)
CallAgain ==
    /\ pc = "returned"
    /\ ~prev.called
    /\ prev' = [called |-> TRUE, ret |-> ret, abort |-> abort]
    /\ usernames' \in SeqsUpTo(Candidates, MaxLenAgain)
    /\ pc' = "port"
    /\ i' = 0
    /\ s' = 0
    /\ open' = {}
    /\ valid_users' = <<>>
    /\ banner' = <<>>
    /\ result' = <<>>
    /\ err' = <<>>
    /\ abort' = "none"
    /\ exc' = "none"
    /\ log' = <<>>
    /\ out' = <<>>
    /\ ret' = <<>>
    /\ unread' = <<>>
    /\ UNCHANGED <<verbose, sleep_value, transport, port, first, usernames_arg, source>>

NextTwice ==
    \/ Next
    \/ CallAgain

SpecTwice == Init /\ [][NextTwice]_vars

\* line 125, once more with the same arguments but the verbosity: the call that
\* ended is kept as its server and its caller saw it, and verify_smtp is called
\* again with the same candidates, delay, socket object and port (calls with
\* up to MaxLenRepeat candidates are repeated)
Repeat ==
    /\ pc \in {"returned", "raised"}
    /\ Len(usernames) <= MaxLenRepeat
    /\ ~first.called
    /\ ~prev.called
    /\ first' = [called |-> TRUE, verbose |-> verbose, pc |-> pc, exc |-> exc,
                 log |-> log, out |-> out, ret |-> ret]
    /\ verbose' \in {NoneVerbose} \cup (0..MaxVerbose)
    /\ pc' = "port"
    /\ i' = 0
    /\ s' = 0
    /\ open' = {}
    /\ valid_users' = <<>>
    /\ banner' = <<>>
    /\ result' = <<>>
    /\ err' = <<>>
    /\ abort' = "none"
    /\ exc' = "none"
    /\ log' = <<>>
    /\ out' = <<>>
    /\ ret' = <<>>
    /\ unread' = <<>>
    /\ UNCHANGED <<usernames, sleep_value, transport, port, prev, usernames_arg, source>>

\* the server and the operating system answer deterministically: the socket
\* call just made (lines 68, 70, 72, 80, 81) for a candidate ends as the same
\* call for that candidate ended in the earlier run: the same IOError or none,
\* and the same bytes received
SameAnswers ==
    \/ log = <<>>
    \/ LET ev == log[Len(log)] IN
       \A m \in 1..Len(first.log) :
           (first.log[m].op = ev.op /\ first.log[m].idx = ev.idx
               /\ ev.op \in {"socket", "connect", "banner", "send", "reply"}) =>
               /\ first.log[m].err = ev.err
               /\ ev.op = "reply" =>
                     first.log[m].data = ev.data /\ first.log[m].num = ev.num

\* a step of verify_smtp against a server that answers as it did before
StepReplayed == Next /\ SameAnswers'

NextReplay ==
    \/ StepReplayed
    \/ Repeat

SpecReplay == Init /\ [][NextReplay]_vars

-----------------------------------------------------------------------------
(* get_usernames (lines 16-48), read_file (lines 10-14) and the two calls of
   __main__ (lines 124-125).  The command-line text and the content of a file
   are sequences of one-character strings. *)

MaxParts == 4       \* most parts a sampled text is made of

HTTP == <<"h", "t", "t", "p">>
HTTPS == <<"h", "t", "t", "p", "s">>

(* the parts the sampled texts are made of *)
ArgParts == { <<"a">>, <<"b">>, <<" ">>, <<"/">>, HTTP \o <<":", "/", "/">> }
FileParts == { <<"a">>, <<"b">>, <<"\n">> }
FileNames == { <<"a">>, <<"a", "/", "b">> }

RECURSIVE Joined(_)
Joined(parts) ==
    IF parts = <<>> THEN <<>> ELSE Head(parts) \o Joined(Tail(parts))

TextsOf(parts) == {Joined(ps) : ps \in SeqsUpTo(parts, MaxParts)}

\* the index of the first c in text, 0 if there is none: str.find
Find(text, c) ==
    IF \E k \in 1..Len(text) : text[k] = c
    THEN CHOOSE k \in 1..Len(text) : text[k] = c /\ \A m \in 1..(k - 1) : text[m] # c
    ELSE 0

\* line 39: str.split(sep): the fields between the separators, empty ones too
RECURSIVE Split(_, _)
Split(text, sep) ==
    LET k == Find(text, sep) IN
    IF k = 0 THEN <<text>>
    ELSE <<SubSeq(text, 1, k - 1)>> \o Split(SubSeq(text, k + 1, Len(text)), sep)

\* line 13: str.splitlines(): the lines, a newline at the end opening no line
RECURSIVE SplitLines(_)
SplitLines(text) ==
    LET k == Find(text, "\n") IN
    IF text = <<>> THEN <<>>
    ELSE IF k = 0 THEN <<text>>
    ELSE <<SubSeq(text, 1, k - 1)>> \o SplitLines(SubSeq(text, k + 1, Len(text)))

\* lines 10-14: read_file
read_file(content) == SplitLines(content)

IsLetter(c) == c \in {"a", "b", "h", "p", "s", "t"}
IsSchemeChar(c) == IsLetter(c) \/ IsDigit(c) \/ c \in {"+", "-", "."}

\* line 41: urlparse(url).scheme: what stands before the first colon, when it
\* starts with a letter and holds scheme characters only
UrlScheme(url) ==
    LET c == Find(url, ":") IN
    IF c > 1 /\ IsLetter(url[1]) /\ \A k \in 1..(c - 1) : IsSchemeChar(url[k])
    THEN SubSeq(url, 1, c - 1)
    ELSE <<>>

\* line 43: urlparse(url).path: behind the scheme, a leading "//" opens the
\* network location, which ends before the next "/"; the rest is the path
\* (the sampled texts hold no "?", "#" or ";")
UrlPath(url) ==
    LET rest == IF UrlScheme(url) = <<>> THEN url
                ELSE SubSeq(url, Len(UrlScheme(url)) + 2, Len(url))
    IN  IF Len(rest) >= 2 /\ rest[1] = "/" /\ rest[2] = "/"
        THEN LET loc == SubSeq(rest, 3, Len(rest))
                 k == Find(loc, "/")
             IN  IF k = 0 THEN <<>> ELSE SubSeq(loc, k, Len(loc))
        ELSE rest

\* line 43: str.strip('/')
RECURSIVE StripSlashes(_)
StripSlashes(text) ==
    IF text = <<>> THEN text
    ELSE IF Head(text) = "/" THEN StripSlashes(Tail(text))
    ELSE IF text[Len(text)] = "/" THEN StripSlashes(SubSeq(text, 1, Len(text) - 1))
    ELSE text

\* lines 41-44: what one entry of the list contributes
Username(username_or_url) ==
    IF UrlScheme(username_or_url) \in {HTTP, HTTPS}
    THEN StripSlashes(UrlPath(username_or_url))
    ELSE username_or_url

MsgNotFound == "Error: File '%s' not found."
MsgNoAccess == "Error: Unable to access file '%s'."
MsgReadError == "Error reading usernames from file: %s"
MsgNoUsernames == "No usernames provided. Please specify either a file path or a list of usernames."

\* lines 26-48: the value of get_usernames(arg) with the file system as src
UsernamesOf(arg, src) ==
    IF arg = <<>> THEN <<>>
    ELSE IF src.isfile
    THEN IF src.error = "none" THEN read_file(src.content) ELSE <<>>
    ELSE LET fields == Split(arg, " ") IN
         [k \in 1..Len(fields) |-> Username(fields[k])]

\* lines 26-46: what get_usernames(arg) prints
PrintedBy(arg, src) ==
    IF arg = <<>> THEN <<MsgNoUsernames>>
    ELSE IF src.isfile /\ src.error = "FileNotFoundError" THEN <<MsgNotFound>>
    ELSE IF src.isfile /\ src.error = "PermissionError" THEN <<MsgNoAccess>>
    ELSE IF src.isfile /\ src.error = "Exception" THEN <<MsgReadError>>
    ELSE <<>>

(* what the file system may hold under the name given: nothing (the text is a
   list, or the name of a file that is missing), or a file that open() and
   read() give the content of or fail on; `named` tells that the user gave the
   text as the name of a file *)
Sources ==
    [isfile : {FALSE}, named : {FALSE}, error : {"none"}, content : {<<>>}]
    \cup [isfile : {FALSE}, named : {TRUE}, error : {"none"}, content : {<<>>}]
    \cup [isfile : {TRUE}, named : {TRUE}, error : {"none"}, content : TextsOf(FileParts)]
    \cup [isfile : {TRUE}, named : {TRUE},
          error : {"FileNotFoundError", "PermissionError", "Exception"}, content : {<<>>}]

(* The state when __main__ has parsed the command line (lines 114-122): -v is
   counted (None when absent), -s and -p are ints, the socket is Python 3's *)
InitMain ==
    /\ verbose \in {NoneVerbose} \cup (1..MaxVerbose)
    /\ sleep_value \in {0, DelaySecs}
    /\ port \in {PortInt(DefaultPort), PortInt(AltPort)}
    /\ transport = "bytes"
    /\ source \in Sources
    /\ usernames_arg \in IF source.named THEN FileNames ELSE TextsOf(ArgParts)
    /\ usernames = <<>>
    /\ pc = "get_usernames"
    /\ i = 0
    /\ s = 0
    /\ open = {}
    /\ valid_users = <<>>
    /\ banner = <<>>
    /\ result = <<>>
    /\ err = <<>>
    /\ abort = "none"
    /\ exc = "none"
    /\ log = <<>>
    /\ out = <<>>
    /\ ret = <<>>
    /\ prev = NoCall
    /\ unread = <<>>
    /\ first = NoRun

\* line 124: usernames = get_usernames(args.usernames); line 125 then calls
\* verify_smtp with them
GetUsernames ==
    /\ pc = "get_usernames"
    /\ usernames' = UsernamesOf(usernames_arg, source)
    /\ out' = PrintedBy(usernames_arg, source)
    /\ pc' = "port"
    /\ UNCHANGED <<verbose, sleep_value, port, transport, i, s, open, valid_users,
                   banner, result, err, abort, exc, log, ret, prev, unread, first,
                   usernames_arg, source>>

\* Called from __main__, verify_smtp is given a verbosity that is None or at
\* least 1: it ends at line 60 or 61, so the steps of the loop are never taken
NextMain ==
    \/ GetUsernames
    \/ ResolvePort
    \/ Announce

SpecMain == InitMain /\ [][NextMain]_vars

-----------------------------------------------------------------------------
(* Vocabulary of the properties, written from the reply and the log alone *)

Has252(r) == \E k \in 1..Len(r) - 2 : r[k] = "2" /\ r[k + 1] = "5" /\ r[k + 2] = "2"
Has550(r) == \E k \in 1..Len(r) - 2 : r[k] = "5" /\ r[k + 1] = "5" /\ r[k + 2] = "0"
Has503(r) == \E k \in 1..Len(r) - 2 : r[k] = "5" /\ r[k + 1] = "0" /\ r[k + 2] = "3"
Has500(r) == \E k \in 1..Len(r) - 2 : r[k] = "5" /\ r[k + 1] = "0" /\ r[k + 2] = "0"

IsAuthRequired(r) == Has503(r) /\ ~Has252(r) /\ ~Has550(r)
IsUnsupported(r) == Has500(r) /\ ~Has252(r) /\ ~Has550(r) /\ ~Has503(r)

\* a reply that was received (the recv of line 81 returned it)
IsReply(ev) == ev.op = "reply" /\ ev.err = <<>>

\* the reply logged at position k has been through the chain of lines 84-96
Classified(k) == ~(pc = "classify" /\ k = Len(log))

-----------------------------------------------------------------------------
\* C1: once a reply is AuthRequired (has "503", neither "252" nor "550") or
\* Unsupported (has "500", none of "252", "550", "503"), the loop stays at that
\* candidate: nothing after that reply in the history is a socket creation, a
\* connect, a banner read, a send or a reply read, so no later candidate is
\* connected to or sent a VRFY command.
C1_NoProbeAfterAbortReply ==
    \A k \in 1..Len(log) :
        (IsReply(log[k]) /\ (IsAuthRequired(log[k].data) \/ IsUnsupported(log[k].data)))
        => /\ i = log[k].idx
           /\ \A m \in (k + 1)..Len(log) : log[m].op \in {"close", "sleep"}
           /\ pc \in {"classify", "finally", "return", "returned"}

\* C1 witness: a scan has returned after an aborting reply to a candidate that
\* was not the last one
C1_Witness ==
    /\ pc = "returned"
    /\ i < Len(usernames)
    /\ \E k \in 1..Len(log) :
          IsReply(log[k]) /\ (IsAuthRequired(log[k].data) \/ IsUnsupported(log[k].data))

\* the candidates whose received and classified reply has "252", in log order
RECURSIVE ConfirmedUpTo(_)
ConfirmedUpTo(k) ==
    IF k = 0 THEN <<>>
    ELSE IF IsReply(log[k]) /\ Has252(log[k].data) /\ Classified(k)
         THEN Append(ConfirmedUpTo(k - 1), usernames[log[k].idx])
         ELSE ConfirmedUpTo(k - 1)

ConfirmedByLog == ConfirmedUpTo(Len(log))

\* C2: at every point of the scan the confirmed list is exactly the candidates
\* whose classified reply had "252", in input order (replies are logged in
\* input order, one per candidate at most), duplicates kept, and the value
\* returned is that list.
C2_ConfirmedIsThe252Subsequence ==
    /\ pc \notin {"port", "announce"} => valid_users = ConfirmedByLog
    /\ pc = "returned" => ret = valid_users
    /\ \A k \in 1..Len(log) :
          IsReply(log[k]) =>
              \A m \in (k + 1)..Len(log) : IsReply(log[m]) => log[k].idx < log[m].idx

\* C2 witness: replies "252", "550", "252" style: the same candidate confirmed
\* twice around a candidate that is not
C2_Witness ==
    /\ pc = "returned"
    /\ Len(usernames) >= 2
    /\ ret = <<usernames[1], usernames[Len(usernames)]>>
    /\ usernames[1] = usernames[Len(usernames)]

\* the outcome of a reply as the precedence 252, 550, 503, 500 gives it
OutcomeOf(r) ==
    CASE Has252(r) -> "Confirmed"
      [] ~Has252(r) /\ Has550(r) -> "Rejected"
      [] IsAuthRequired(r) -> "AuthRequired"
      [] IsUnsupported(r) -> "Unsupported"
      [] OTHER -> "OtherError"

\* C3: first match wins in the order 252, 550, 503, 500.  For every classified
\* reply: it aborts the scan exactly when its outcome is AuthRequired or
\* Unsupported (then with that reason); a reply with "252" or "550" never aborts,
\* whatever else it holds; the confirmed list grows by exactly the Confirmed
\* replies; and after a reply that does not abort the loop goes on: the scan
\* does not end before the last candidate.
C3_FirstMatchWins ==
    /\ \A k \in 1..Len(log) :
          (IsReply(log[k]) /\ Classified(k)) =>
              LET o == OutcomeOf(log[k].data) IN
              /\ o \in {"AuthRequired", "Unsupported"} => abort = o /\ i = log[k].idx
              /\ (o \in {"Confirmed", "Rejected", "OtherError"} /\ i = log[k].idx)
                    => /\ abort = "none"
                       /\ exc = "none"
                       /\ pc \in {"return", "returned", "raised"} => i = Len(usernames)
    /\ pc \notin {"port", "announce"} =>
          Len(valid_users) = Cardinality({k \in 1..Len(log) :
              IsReply(log[k]) /\ Classified(k) /\ OutcomeOf(log[k].data) = "Confirmed"})

\* C3 witness: a reply holding "252" together with "503" was classified and the
\* scan went on to a further candidate
C3_Witness ==
    \E k \in 1..Len(log) :
        /\ IsReply(log[k]) /\ Has252(log[k].data) /\ Has503(log[k].data)
        /\ i > log[k].idx

\* the text of an error holds 'Operation now in progress'
FatalText(e) ==
    \E k \in 1..Len(e) - 3 :
        e[k] = "Operation" /\ e[k + 1] = "now" /\ e[k + 2] = "in" /\ e[k + 3] = "progress"

\* a socket call of the probe that raised an IOError
Failed(ev) == ev.op \in {"connect", "banner", "send", "reply"} /\ ev.err # <<>>

\* C4: a connect failure whose text holds 'Operation now in progress' aborts the
\* scan with reason ConnectionError: the loop stays at that candidate (on the
\* first candidate: no other candidate is connected to, however long the queue),
\* only the teardown follows, and the list returned is the one accumulated
\* before the failure.
C4_FatalConnectFailureAborts ==
    \A k \in 1..Len(log) :
        (log[k].op = "connect" /\ FatalText(log[k].err))
        => /\ i = log[k].idx
           /\ \A m \in (k + 1)..Len(log) : log[m].op \in {"close", "sleep"}
           /\ pc \in {"except", "finally", "return", "returned"}
           /\ pc # "except" => abort = "ConnectionError"
           /\ valid_users = ConfirmedUpTo(k)
           /\ pc = "returned" => ret = ConfirmedUpTo(k)

\* C4 witness: the first connect of a scan of several candidates failed with the
\* marker and the scan has returned
C4_Witness ==
    /\ pc = "returned"
    /\ Len(usernames) >= 2
    /\ Len(log) >= 2
    /\ log[2].op = "connect" /\ log[2].idx = 1 /\ FatalText(log[2].err)

\* the position in the log right after the teardown that follows position k
AfterTeardown(k) == k + (IF sleep_value # 0 THEN 3 ELSE 2)

\* C5: an IOError of connect, of the banner read, of the send or of the reply
\* read whose text has no marker does not abort the scan: no break and no
\* exception come of it, the confirmed list is what it was, the close and the
\* delay follow, and then the next candidate is probed; the scan ends there only
\* if the failing candidate was the last one.
C5_NonFatalErrorGoesOn ==
    \A k \in 1..Len(log) :
        (Failed(log[k]) /\ ~FatalText(log[k].err)) =>
            LET j == log[k].idx IN
            /\ i = j => /\ abort = "none" /\ exc = "none"
                        /\ valid_users = ConfirmedUpTo(k)
                        /\ pc \in {"except", "finally", "for", "return", "returned"}
                        /\ pc \in {"return", "returned"} => j = Len(usernames)
            /\ Len(log) > k => log[k + 1].op = "close" /\ log[k + 1].idx = j
            /\ (Len(log) > k + 1 /\ sleep_value # 0)
                  => log[k + 2].op = "sleep" /\ log[k + 2].num = sleep_value
            /\ Len(log) >= AfterTeardown(k)
                  => log[AfterTeardown(k)].op = "socket" /\ log[AfterTeardown(k)].idx = j + 1
            /\ (pc \in {"for", "return", "returned"} /\ i = j) => Len(log) = AfterTeardown(k) - 1

\* C5 witness: after a failed reply read without the marker, the next candidate
\* was connected to and answered
C5_Witness ==
    \E k \in 1..Len(log) : \E m \in 1..Len(log) :
        /\ log[k].op = "reply" /\ log[k].err # <<>> /\ ~FatalText(log[k].err)
        /\ m > k /\ IsReply(log[m]) /\ log[m].idx = log[k].idx + 1

\* C6: at most one connection is open, it is the current candidate's, none is
\* open at the top of the loop nor when the next socket is created and
\* connected, and none is open when verify_smtp returns or raises.
C6_ConnectionClosedOnEveryPath ==
    /\ Cardinality(open) <= 1
    /\ open # {} => open = {i} /\ s = i
    /\ pc \in {"port", "announce", "for", "socket", "connect"} => open = {}
    /\ pc \in {"return", "returned", "raised"} => open = {}

\* C6 witness: two connections were made in turn and the scan ended by an abort
C6_Witness ==
    /\ pc = "returned"
    /\ abort # "none"
    /\ \E k \in 1..Len(log) : log[k].op = "connect" /\ log[k].err = <<>> /\ log[k].idx = 1
    /\ \E k \in 1..Len(log) : log[k].op = "connect" /\ log[k].err = <<>> /\ log[k].idx = 2

\* C7 (the claim as stated; the code violates it): no sleep is taken in an
\* iteration that aborts the scan.
C7_NoSleepInAbortingIteration ==
    \A k \in 1..Len(log) :
        log[k].op = "sleep" => ~(abort # "none" /\ log[k].idx = i)

\* C8: with a delay D > 0, every connect of a candidate after the first comes
\* right after the creation of its socket, which comes right after a sleep of D,
\* which comes right after the close of the previous connection; every sleep is
\* of D; with delay 0 nothing sleeps and the socket creation comes right after
\* the close.
C8_DelayBetweenCandidates ==
    /\ \A k \in 1..Len(log) : log[k].op = "sleep" => sleep_value # 0 /\ log[k].num = sleep_value
    /\ \A k \in 1..Len(log) :
          (log[k].op = "connect" /\ log[k].idx > 1) =>
              /\ log[k - 1].op = "socket" /\ log[k - 1].idx = log[k].idx
              /\ IF sleep_value # 0
                 THEN /\ k > 3
                      /\ log[k - 2].op = "sleep" /\ log[k - 2].num = sleep_value
                      /\ log[k - 2].idx = log[k].idx - 1
                      /\ log[k - 3].op = "close"
                 ELSE /\ k > 2
                      /\ log[k - 2].op = "close"

\* C8 witness: with a delay, the second candidate was connected to after the
\* first one failed without the marker
C8_Witness ==
    /\ sleep_value # 0
    /\ \E k \in 1..Len(log) : Failed(log[k]) /\ log[k].idx = 1
    /\ \E k \in 1..Len(log) : log[k].op = "connect" /\ log[k].idx = 2

RECURSIVE LastCall(_)
LastCall(k) ==
    IF k = 0 THEN 0
    ELSE IF log[k].op \in {"close", "sleep"} THEN LastCall(k - 1)
    ELSE k

\* how the scan ended, read from the history: by a 503 reply, by a 500 reply,
\* by an IOError with the marker, or by going through every candidate
EndedBy ==
    LET k == LastCall(Len(log)) IN
    IF k = 0 THEN "Completed"
    ELSE IF IsReply(log[k]) /\ IsAuthRequired(log[k].data) THEN "AuthRequired"
    ELSE IF IsReply(log[k]) /\ IsUnsupported(log[k].data) THEN "Unsupported"
    ELSE IF log[k].err # <<>> /\ FatalText(log[k].err) THEN "ConnectionError"
    ELSE "Completed"

-----------------------------------------------------------------------------
\* C11: no exception raised inside the candidate loop reaches the caller: a
\* call that ended by an exception ended before its first iteration (the loop
\* index is still 0); every failure of an iteration (socket creation, connect,
\* banner read, send, reply read, classification) is caught and the call
\* returns.
C11_NoExceptionLeavesTheLoop ==
    pc = "raised" => i = 0

-----------------------------------------------------------------------------
\* C20: whether an IOError ends the scan depends on its text alone, never on the
\* step that raised it.  For every failed step in the history (socket creation,
\* connect, banner read, send, reply read) whose error has been through the
\* except clause: when its text holds 'Operation now in progress' the scan has
\* aborted at that candidate, for a connection failure, and nothing but the
\* teardown follows; when its text does not hold it ('timed out' included) that
\* iteration has not aborted, and the scan does not end before the last
\* candidate.
C20_AbortDependsOnTextOnly ==
    \A k \in 1..Len(log) :
        (log[k].err # <<>> /\ ~(pc = "except" /\ k = Len(log))) =>
            IF FatalText(log[k].err)
            THEN /\ abort = "ConnectionError"
                 /\ i = log[k].idx
                 /\ \A m \in (k + 1)..Len(log) : log[m].op \in {"close", "sleep"}
            ELSE i = log[k].idx =>
                    /\ abort = "none"
                    /\ pc \in {"return", "returned", "raised"} =>
                          (i = Len(usernames) \/ exc # "none")

\* C20 witness: a send that failed with the marker has ended the scan, after a
\* banner read of an earlier candidate that timed out and did not
C20_Witness ==
    /\ pc = "returned"
    /\ abort = "ConnectionError"
    /\ \E k \in 1..Len(log) :
          /\ log[k].op = "banner" /\ log[k].err = TIMEDOUT
          /\ \E m \in (k + 1)..Len(log) :
                log[m].op = "send" /\ FatalText(log[m].err) /\ log[m].idx > log[k].idx

-----------------------------------------------------------------------------
\* the steps of one probe that come before its teardown
ProbeOps == {"socket", "connect", "banner", "send", "reply"}

\* the step that a step of a probe follows at once, on the same candidate
StepBefore(op) ==
    CASE op = "connect" -> "socket"
      [] op = "banner" -> "connect"
      [] op = "send" -> "banner"
      [] op = "reply" -> "send"

\* C17: probing is strictly sequential and in input order.  In the history,
\* a connect follows at once the successful socket creation of the same
\* candidate, a banner read the successful connect, a send the successful banner
\* read, a reply read the successful send; the reply is classified before the
\* close; the close follows a step of the probe and the sleep follows the close.
\* The first socket is created for the first candidate and every later one for
\* the candidate after the one whose teardown it follows, every earlier step
\* being of an earlier candidate: candidates are taken in input order, each
\* connected to at most once (nothing is retried), so the connects are no more
\* than the candidates.  A connection that was opened is closed before any step
\* of another candidate, unless it is the one being probed; a candidate is
\* connected to only when no connection is open, and at most one connection is
\* open at any time.
C17_StrictlySequential ==
    /\ \A k \in 1..Len(log) :
          LET ev == log[k] IN
          /\ ev.idx \in 1..Len(usernames)
          /\ CASE ev.op = "socket" ->
                     IF k = 1 THEN ev.idx = 1
                     ELSE /\ log[k - 1].op \in {"close", "sleep"}
                          /\ \A m \in 1..(k - 1) : log[m].idx < ev.idx
                          /\ \E m \in 1..(k - 1) :
                                log[m].op = "socket" /\ log[m].idx = ev.idx - 1
               [] ev.op = "close" -> k > 1 /\ log[k - 1].op \in ProbeOps
               [] ev.op = "sleep" ->
                     k > 2 /\ log[k - 1].op = "close" /\ log[k - 2].idx = ev.idx
               [] OTHER ->
                     /\ k > 1
                     /\ log[k - 1].op = StepBefore(ev.op)
                     /\ log[k - 1].idx = ev.idx
                     /\ log[k - 1].err = <<>>
                     /\ ev.op = "connect" =>
                           \A m \in 1..(k - 1) :
                               log[m].op = "connect" => log[m].idx < ev.idx
                     /\ (ev.op = "connect" /\ ev.err = <<>>) =>
                           \/ ev.idx = i /\ pc \notin {"for", "return", "returned", "raised"}
                           \/ \E n \in (k + 1)..Len(log) :
                                 /\ log[n].op = "close" /\ log[n].idx = ev.idx
                                 /\ \A m \in (k + 1)..(n - 1) :
                                       log[m].op \in {"banner", "send", "reply"}
    /\ Cardinality(open) <= 1
    /\ pc = "connect" => open = {}
    /\ pc = "classify" => IsReply(log[Len(log)]) /\ log[Len(log)].idx = i
    /\ pc = "finally" => log[Len(log)].op \in ProbeOps /\ log[Len(log)].idx = i

\* C17 witness: two candidates were each probed through every step, with the
\* delay after each, and the scan has returned
C17_Witness ==
    /\ pc = "returned"
    /\ sleep_value # 0
    /\ Len(usernames) = 2
    /\ \E k \in 1..Len(log) : IsReply(log[k]) /\ log[k].idx = 1
    /\ \E k \in 1..Len(log) : IsReply(log[k]) /\ log[k].idx = 2
    /\ log[Len(log)].op = "sleep"

-----------------------------------------------------------------------------
\* a port given as text that holds nothing but blanks (zero-length included)
IsBlankPort(p) == p.kind = "str" /\ \A k \in 1..Len(p.text) : p.text[k] = " "

\* a port given as text that is a decimal number, blanks around it allowed
IsNumericPort(p) ==
    /\ p.kind = "str"
    /\ \E a \in 1..Len(p.text) : \E b \in a..Len(p.text) :
          /\ \A k \in 1..Len(p.text) :
                IF k \in a..b THEN p.text[k] \in {"0", "1", "2", "3", "4", "5", "6", "7", "8", "9"}
                ELSE p.text[k] = " "

\* C14: an unset, zero-length or blank port resolves to 25 and a numeric port
\* is used as given; only an explicit non-numeric port is rejected, before any
\* connection.  A call that ended by the ValueError of the port conversion (the
\* port is then still the value given) was given text that is neither blank nor
\* a number, and it opened no connection; every connect goes to the port the
\* call resolved.
C14_PortResolution ==
    /\ exc = "ValueError" =>
          /\ port.kind = "str"
          /\ ~IsBlankPort(port)
          /\ ~IsNumericPort(port)
          /\ log = <<>>
    /\ \A k \in 1..Len(log) :
          log[k].op = "connect" => port.kind = "int" /\ log[k].num = port.num

-----------------------------------------------------------------------------
\* The call is one thread of straight-line code: every statement that can run
\* does run.  The blocking socket calls end within the timeout set at line 69
\* and the sleep of line 108 is finite, so no step is put off for ever.
FairSpec == Spec /\ WF_vars(Next)

\* the call is over: it has returned or an exception has left it
Terminated == pc \in {"returned", "raised"}

\* C18: for every finite candidate sequence, a call that has got to its loop
\* eventually ends the loop, by exhaustion or by an abort, and returns the
\* confirmed list.
C18_LoopEndsAndReturns ==
    (pc = "for") ~> (pc = "returned")

\* every call ends, by a return or by an exception
EveryCallEnds == <>Terminated

-----------------------------------------------------------------------------
\* the part of a received reply that the server sent in answer to VRFY: what
\* follows the bytes of the banner that were still unread
VrfyReply(ev) == SubSeq(ev.data, ev.num + 1, Len(ev.data))

\* the candidates whose answer to VRFY has "252", in log order
RECURSIVE ConfirmedByVrfyReplyUpTo(_)
ConfirmedByVrfyReplyUpTo(k) ==
    IF k = 0 THEN <<>>
    ELSE IF IsReply(log[k]) /\ Has252(VrfyReply(log[k])) /\ Classified(k)
         THEN Append(ConfirmedByVrfyReplyUpTo(k - 1), usernames[log[k].idx])
         ELSE ConfirmedByVrfyReplyUpTo(k - 1)

\* C19: the banner never influences the outcome of a candidate: whatever bytes
\* the server sent as its banner, in one piece or more, each candidate is
\* classified by the server's answer to VRFY alone, so the confirmed list is the
\* candidates whose answer to VRFY had "252", and a reply ends the scan exactly
\* when the answer to VRFY is AuthRequired or Unsupported.
C19_BannerNeverInfluences ==
    /\ pc \notin {"port", "announce"} =>
          valid_users = ConfirmedByVrfyReplyUpTo(Len(log))
    /\ \A k \in 1..Len(log) :
          (IsReply(log[k]) /\ Classified(k) /\ i = log[k].idx) =>
              (abort # "none" <=>
                  OutcomeOf(VrfyReply(log[k])) \in {"AuthRequired", "Unsupported"})

-----------------------------------------------------------------------------
\* C12: verbosity does not affect control flow or the result.  When a call is
\* repeated with the same candidates, parameters and server behaviour and any
\* verbosity (unset, 0, 1, 2), the second call ends as the first did, with the
\* same history of connections, sends and reads and the same confirmed list.
C12_VerbosityIrrelevant ==
    (first.called /\ Terminated) =>
        /\ pc = first.pc
        /\ log = first.log
        /\ ret = first.ret

-----------------------------------------------------------------------------
-----------------------------------------------------------------------------
(* Vocabulary of the candidate source, written from the text alone *)

\* where the entries of a list start: at a character that is no blank and that
\* stands first or behind a blank
EntryStarts(text) ==
    {j \in 1..Len(text) : text[j] # " " /\ (j = 1 \/ text[j - 1] = " ")}

\* where the lines of a file start: at the first character and behind a newline
LineStarts(text) ==
    {j \in 1..Len(text) : j = 1 \/ text[j - 1] = "\n"}

\* what stands in text from position j up to the next stop character or the end
RunFrom(text, j, stop) ==
    LET stops == {e \in j..Len(text) : text[e] = stop}
        next == IF stops = {} THEN Len(text) + 1
                ELSE CHOOSE e \in stops : \A f \in stops : e <= f
    IN  SubSeq(text, j, next - 1)

\* the runs that start at the given places, in the order of the text
RECURSIVE RunsFrom(_, _, _, _)
RunsFrom(text, starts, stop, j) ==
    IF j > Len(text) THEN <<>>
    ELSE IF j \in starts THEN <<RunFrom(text, j, stop)>> \o RunsFrom(text, starts, stop, j + 1)
    ELSE RunsFrom(text, starts, stop, j + 1)

\* the entries the user wrote, and the lines of the file
EntriesWritten(text) == RunsFrom(text, EntryStarts(text), " ", 1)
LinesWritten(text) == RunsFrom(text, LineStarts(text), "\n", 1)

StartsWith(text, p) == Len(text) >= Len(p) /\ SubSeq(text, 1, Len(p)) = p

IsWebUrl(entry) == StartsWith(entry, HTTP \o <<":">>) \/ StartsWith(entry, HTTPS \o <<":">>)

\* the path of an http(s) URL entry, without the slashes around it: what stands
\* behind the host, from its first to its last character that is no slash
TrimmedPath(entry) ==
    LET body == SubSeq(entry, Find(entry, ":") + 1, Len(entry))
        path == IF StartsWith(body, <<"/", "/">>)
                THEN LET k == {e \in 3..Len(body) : body[e] = "/"} IN
                     IF k = {} THEN <<>>
                     ELSE SubSeq(body, CHOOSE e \in k : \A f \in k : e <= f, Len(body))
                ELSE body
        kept == {k \in 1..Len(path) : path[k] # "/"}
    IN  IF kept = {} THEN <<>>
        ELSE SubSeq(path, CHOOSE a \in kept : \A b \in kept : a <= b,
                          CHOOSE a \in kept : \A b \in kept : a >= b)

\* C15: get_usernames never fabricates a candidate and keeps order and
\* duplicates.  From a file that was read, the candidates are the lines of the
\* file, in order.  From a list, the candidates are, one for one and in order,
\* the entries the user wrote, an http(s) URL entry giving its path without the
\* slashes around it: there is no candidate that the user did not write, such
\* as an empty string between two separators.
C15_NoFabricatedCandidate ==
    pc # "get_usernames" =>
        IF source.isfile
        THEN source.error = "none" => usernames = LinesWritten(source.content)
        ELSE source.named \/
             LET entries == EntriesWritten(usernames_arg) IN
             usernames = [k \in 1..Len(entries) |->
                             IF IsWebUrl(entries[k]) THEN TrimmedPath(entries[k])
                             ELSE entries[k]]

-----------------------------------------------------------------------------
\* C16: when the source names a file that is missing or cannot be read, the
\* failure is reported and the scan does not start: get_usernames prints an
\* error and hands no candidate to verify_smtp (the name of the file is not a
\* candidate), and no socket call is made.
C16_UnavailableSourceStopsTheScan ==
    (pc # "get_usernames" /\ source.named /\ (~source.isfile \/ source.error # "none")) =>
        /\ usernames = <<>>
        /\ \E k \in 1..Len(out) : out[k] \in {MsgNotFound, MsgNoAccess, MsgReadError}
        /\ log = <<>>

====
